---- MODULE Spec2Model ----
(***************************************************************************)
(* Model of the technical blog pipeline (src/tech_blog_pipeline.py), of the *)
(* standard news pipeline (src/Blog_Pipeline.py) and of the dashboard that *)
(* drives both click by click (src/UI.py).                                 *)
(*                                                                         *)
(* Python values are tagged records [t, v]: a str is a sequence of         *)
(* characters, None and int carry no payload, a list carries its items.    *)
(***************************************************************************)
EXTENDS Integers, Sequences, FiniteSets, TLC

(* ---------------------------- bounds ----------------------------------- *)
\* longest selector output text (in characters) enumerated by SpecUnit
MaxRawLen == 4
\* longest list value returned by the selector
MaxListLen == 3
\* longest idea list the selector returns in a pipeline run
MaxIdeas == 2
\* restarts of the dashboard pipeline in one session
MaxRestarts == 1
\* fetch clicks between two restarts
MaxFetch == 2
\* invocations of pick_next_idea in a unit run
MaxCalls == 3
\* headlines in one reply of the headline model
MaxHeadlines == 2
\* stage calls and radio choices in one session of the standard dashboard
MaxStdCalls == 4

(* ------------------------- Python values ------------------------------- *)
None == [t |-> "None", v |-> <<>>]
Str(s) == [t |-> "str", v |-> s]
IntV == [t |-> "int", v |-> <<>>]
ListV(xs) == [t |-> "list", v |-> xs]
IsStr(x) == x.t = "str"
IsList(x) == x.t = "list"
\* a value that is neither a str nor a list (a content part of the reply)
DictV == [t |-> "dict", v |-> <<>>]

\* dict helpers: {**d, **upd} and {**d, k: val}
Merge(d, upd) ==
    [k \in DOMAIN d \cup DOMAIN upd |-> IF k \in DOMAIN upd THEN upd[k] ELSE d[k]]
DictSet(d, k, val) ==
    [x \in DOMAIN d \cup {k} |-> IF x = k THEN val ELSE d[x]]
EmptyDict == <<>>

\* the characters texts are built from; Fence stands for the markdown code
\* fence (three backticks), which the code removes as a unit
Fence == "~~~"
Alphabet == {"a", "-", " ", "\n", "[", "]", "'", "7", Fence}

RECURSIVE TextsOfLen(_)
TextsOfLen(n) ==
    IF n = 0 THEN {<<>>}
    ELSE {Append(s, c) : s \in TextsOfLen(n - 1), c \in Alphabet}

Texts(n) == UNION {TextsOfLen(k) : k \in 0..n}

(* ------------------------- str methods --------------------------------- *)
Whitespace == {" ", "\n"}

RECURSIVE LStrip(_, _)
LStrip(s, chars) ==
    IF s # <<>> /\ Head(s) \in chars THEN LStrip(Tail(s), chars) ELSE s

RECURSIVE RStrip(_, _)
RStrip(s, chars) ==
    IF s # <<>> /\ s[Len(s)] \in chars
    THEN RStrip(SubSeq(s, 1, Len(s) - 1), chars) ELSE s

\* str.strip(chars)
Strip(s, chars) == RStrip(LStrip(s, chars), chars)

\* str.split(sep); sep is a non-empty sequence of characters
RECURSIVE Split(_, _)
Split(s, sep) ==
    LET At(i) == i + Len(sep) - 1 <= Len(s) /\ SubSeq(s, i, i + Len(sep) - 1) = sep IN
    IF \E i \in 1..Len(s) : At(i)
    THEN LET i == CHOOSE j \in 1..Len(s) : At(j) /\ \A k \in 1..(j - 1) : ~At(k)
         IN <<SubSeq(s, 1, i - 1)>> \o Split(SubSeq(s, i + Len(sep), Len(s)), sep)
    ELSE <<s>>

\* the three chained str.replace(fence, "") calls
RemoveFences(s) == SelectSeq(s, LAMBDA c : c # Fence)

(* ----------------------- ast.literal_eval ------------------------------ *)
Fail == [ok |-> FALSE, val |-> None, nxt |-> 0]
Ok(val, nxt) == [ok |-> TRUE, val |-> val, nxt |-> nxt]

RECURSIVE SkipWs(_, _, _)
SkipWs(s, i, nl) ==
    IF i <= Len(s) /\ (s[i] = " " \/ (nl /\ s[i] = "\n"))
    THEN SkipWs(s, i + 1, nl) ELSE i

RECURSIVE SkipDigits(_, _)
SkipDigits(s, i) ==
    IF i <= Len(s) /\ s[i] = "7" THEN SkipDigits(s, i + 1) ELSE i

IsTriple(s, i) ==
    i + 2 <= Len(s) /\ s[i] = "'" /\ s[i + 1] = "'" /\ s[i + 2] = "'"

\* one string literal starting at the quote s[i]
ParseString(s, i) ==
    IF IsTriple(s, i)
    THEN IF \E j \in (i + 3)..Len(s) : IsTriple(s, j)
         THEN LET j == CHOOSE k \in (i + 3)..Len(s) :
                          IsTriple(s, k) /\ \A m \in (i + 3)..(k - 1) : ~IsTriple(s, m)
              IN Ok(Str(SubSeq(s, i + 3, j - 1)), j + 3)
         ELSE Fail
    ELSE IF \E j \in (i + 1)..Len(s) :
                 s[j] = "'" /\ \A m \in (i + 1)..(j - 1) : s[m] \notin {"'", "\n"}
         THEN LET j == CHOOSE k \in (i + 1)..Len(s) :
                          s[k] = "'" /\ \A m \in (i + 1)..(k - 1) : s[m] # "'"
              IN Ok(Str(SubSeq(s, i + 1, j - 1)), j + 1)
         ELSE Fail

\* adjacent string literals concatenate
RECURSIVE ParseStrings(_, _, _)
ParseStrings(s, i, nl) ==
    LET r == ParseString(s, i) IN
    IF ~r.ok THEN Fail
    ELSE LET k == SkipWs(s, r.nxt, nl) IN
         IF k <= Len(s) /\ s[k] = "'"
         THEN LET q == ParseStrings(s, k, nl) IN
              IF q.ok THEN Ok(Str(r.val.v \o q.val.v), q.nxt) ELSE Fail
         ELSE r

\* a literal starting at s[i]; nl: inside brackets, where newlines are blanks
RECURSIVE ParseExpr(_, _, _)
ParseExpr(s, i, nl) ==
    IF i > Len(s) THEN Fail
    ELSE IF s[i] = "7" THEN Ok(IntV, SkipDigits(s, i))
    ELSE IF s[i] = "-"
         THEN LET k == SkipWs(s, i + 1, nl) IN
              IF k <= Len(s) /\ s[k] = "7" THEN Ok(IntV, SkipDigits(s, k)) ELSE Fail
    ELSE IF s[i] = "'" THEN ParseStrings(s, i, nl)
    ELSE IF s[i] = "["
         THEN LET k == SkipWs(s, i + 1, TRUE) IN
              IF k > Len(s) THEN Fail
              ELSE IF s[k] = "]" THEN Ok(ListV(<<>>), k + 1)
              ELSE LET r == ParseExpr(s, k, TRUE) IN
                   IF ~r.ok THEN Fail
                   ELSE LET m == SkipWs(s, r.nxt, TRUE) IN
                        IF m <= Len(s) /\ s[m] = "]"
                        THEN Ok(ListV(<<r.val>>), m + 1) ELSE Fail
    ELSE Fail

\* ast.literal_eval(s): ok = FALSE stands for SyntaxError / ValueError
literal_eval(s) ==
    LET r == ParseExpr(s, 1, FALSE) IN
    IF r.ok /\ SkipWs(s, r.nxt, FALSE) > Len(s) THEN r ELSE Fail

(* ----------------------- node functions -------------------------------- *)
\* what iterating over x yields; int and None are not iterable
Iterable(x) == x.t \in {"list", "str"}
Items(x) == IF IsList(x) THEN x.v ELSE [i \in 1..Len(x.v) |-> Str(<<x.v[i]>>)]

\* the value bound to parsed_selected; raw_selected is content_selector's reply
ParsedSelected(raw_selected) ==
    IF IsStr(raw_selected)
    THEN LET clean_str == Strip(RemoveFences(raw_selected.v), Whitespace)
             r == literal_eval(clean_str)
             lines == SelectSeq(Split(clean_str, <<"\n">>),
                                LAMBDA line : Strip(line, Whitespace) # <<>>)
         IN IF r.ok THEN r.val
            ELSE ListV([i \in 1..Len(lines) |-> Str(Strip(lines[i], {"-", " ", "*"}))])
    ELSE IF IsList(raw_selected) THEN raw_selected
    ELSE ListV(<<>>)

Cleaned(parsed_selected) ==
    SelectSeq(Items(parsed_selected),
              LAMBDA item : IsStr(item) /\ Strip(item.v, Whitespace) # <<>>)

\* returns [raised, state]; raised: the comprehension iterates a non-iterable
select_ideas(state, raw_selected) ==
    LET parsed_selected == ParsedSelected(raw_selected) IN
    IF ~Iterable(parsed_selected)
    THEN [raised |-> TRUE, state |-> state]
    ELSE [raised |-> FALSE,
          state |-> Merge(state, [selected_ideas |-> Cleaned(parsed_selected),
                                  completed_blogs |-> EmptyDict])]

\* pick_next_idea with pop() in place of pop(0)
pick_next_idea_pop_last(state) ==
    IF state.selected_ideas # <<>>
    THEN Merge([state EXCEPT !.selected_ideas = SubSeq(@, 1, Len(@) - 1)],
               [current_idea |-> state.selected_ideas[Len(state.selected_ideas)]])
    ELSE state

\* pick_next_idea that clears current_idea when the queue is empty
pick_next_idea_clears(state) ==
    IF state.selected_ideas # <<>>
    THEN Merge([state EXCEPT !.selected_ideas = Tail(@)],
               [current_idea |-> Head(state.selected_ideas)])
    ELSE Merge(state, [current_idea |-> None])

pick_next_idea(state) ==
    IF state.selected_ideas # <<>>
    THEN Merge([state EXCEPT !.selected_ideas = Tail(@)],
               [current_idea |-> Head(state.selected_ideas)])
    ELSE state

\* research: what run_perplexity_agent returned
research_agent(state, research) == Merge(state, [research_data |-> research])

\* blog: what blog_writer returned
blog_writer_agent(state, blog) == Merge(state, [blog_post |-> blog])

ghost_drafter_agent(state) ==
    LET updated_completed ==
            DictSet(state.completed_blogs, state.current_idea,
                    [blog_post |-> state.blog_post])
    IN Merge(state, [completed_blogs |-> updated_completed,
                     blog_post |-> None,
                     current_idea |-> None,
                     research_data |-> None])

has_more_ideas(state) == IF state.selected_ideas # <<>> THEN "pick_next" ELSE "END"

(* ------------------- browser agent and retry wrapper ------------------- *)
max_retries == 3

\* attempts[i] says whether the i-th agent.run() returns ("ok") or raises
AgentPatterns == [1..(max_retries + 1) -> {"ok", "fail"}]

\* the while loop with retries <= max_retries as its condition
RECURSIVE RetryLoopOffByOne(_, _, _)
RetryLoopOffByOne(attempts, retries, log) ==
    IF retries <= max_retries
    THEN IF attempts[retries + 1] = "ok"
         THEN [result |-> retries + 1, log |-> Append(log, "ok"), raised |-> FALSE]
         ELSE RetryLoopOffByOne(attempts, retries + 1, Append(log, "fail"))
    ELSE [result |-> 0, log |-> log, raised |-> FALSE]

\* the while loop; result k: what attempt k returned, result 0: None
RECURSIVE RetryLoop(_, _, _)
RetryLoop(attempts, retries, log) ==
    IF retries < max_retries
    THEN IF attempts[retries + 1] = "ok"
         THEN [result |-> retries + 1, log |-> Append(log, "ok"), raised |-> FALSE]
         ELSE RetryLoop(attempts, retries + 1, Append(log, "fail"))
    ELSE [result |-> 0, log |-> log, raised |-> FALSE]

run_agent_with_retry(attempts) == RetryLoop(attempts, 0, <<>>)

\* replies of an external call: it raises, or returns content
Raises == [raised |-> TRUE, content |-> <<>>]
Returns(c) == [raised |-> FALSE, content |-> c]

\* extraction: reply of the extraction model, called only on a truthy result
get_medium_output(attempts, extraction) ==
    LET execution_result == run_agent_with_retry(attempts) IN
    IF execution_result.result # 0
    THEN [raised |-> extraction.raised,
          value |-> Strip(extraction.content, Whitespace),
          agent |-> execution_result]
    ELSE [raised |-> FALSE, value |-> <<>>, agent |-> execution_result]

(* --------------------------- external replies -------------------------- *)
ExtractionReplies == {Raises, Returns(<<" ">>), Returns(<<"a", "\n", "a">>)}
\* run_perplexity_agent and blog_writer catch every failure and return ""
ResearchResults == {Str(<<"R">>), Str(<<>>)}
BlogResults == {Str(<<"P">>), Str(<<>>)}

ItemValues == {Str(<<"a">>), Str(<<"c">>), Str(<<"-", " ", "a">>),
               Str(<<" ">>), Str(<<>>), DictV}

RECURSIVE SeqsOfLen(_, _)
SeqsOfLen(S, n) ==
    IF n = 0 THEN {<<>>}
    ELSE {Append(q, x) : q \in SeqsOfLen(S, n - 1), x \in S}

SeqsUpTo(S, n) == UNION {SeqsOfLen(S, k) : k \in 0..n}

\* replies of content_selector enumerated for select_ideas alone
SelectorOutputs ==
    {Str(s) : s \in Texts(MaxRawLen)}
        \cup {ListV(l) : l \in SeqsUpTo(ItemValues, MaxListLen)}

\* replies of content_selector in a pipeline run: an empty text, a number,
\* two lines of free text, and the lists of up to MaxIdeas ideas
PipelineOutputs ==
    {Str(<<>>), Str(<<"7">>), Str(<<"a", "\n", "a">>)}
        \cup {ListV(l) : l \in SeqsUpTo({Str(<<"a">>), Str(<<"c">>)}, MaxIdeas)}

(* ------------------------------ state ---------------------------------- *)
VARIABLES
    driver,        \* "graph": script + compiled workflow, "ui": dashboard, "unit"
    pc,            \* graph: the node to run next; "exit", "raised", "END"
    state,         \* BlogState threaded through the graph / tech_pipeline_data
    status,        \* tech_pipeline_data["status"]
    agent,         \* what the last run_agent_with_retry call did and returned
    raw_selected,  \* the last reply of content_selector
    calls,         \* invocations of each stage function since the last restart
    queue0,        \* the idea queue left by the last select_ideas
    picked,        \* ideas removed from the queue by pick_next_idea
    written,       \* (idea, blog) of each blog_writer_agent call since restart
    last,          \* the stage that completed last; "warning" after a refused click
    restarts,      \* restart clicks so far
    runs,          \* agent.run() outcomes of the last browser-automation stage
    faults,        \* the stages whose call raised
    replies,       \* standard pipeline: what each stage's call returned last
    env,           \* the process environment read when Blog_Pipeline is imported
    key            \* what the last get_api_key call returned

vars == <<driver, pc, state, status, agent, raw_selected, calls, queue0,
          picked, written, last, restarts, runs, faults, replies, env, key>>

Steps == {"initial_ideas", "select_ideas", "pick_next", "research", "write", "draft"}

NoCalls == [k \in Steps |-> 0]
Count(k) == [calls EXCEPT ![k] = @ + 1]

initial_state(ideas_list) ==
    [ideas |-> ideas_list, selected_ideas |-> <<>>, current_idea |-> None,
     research_data |-> None, blog_post |-> None, completed_blogs |-> EmptyDict]

\* init_session_state: tech_pipeline_data without its "status" entry
tech_pipeline_data ==
    [ideas |-> <<>>, selected_ideas |-> <<>>, current_idea |-> None,
     research_data |-> None, blog_post |-> None, draft_status |-> None,
     completed_blogs |-> EmptyDict]

InitStatus == [k \in Steps |-> "pending"]

NoAgent == [result |-> 0, log |-> <<>>, raised |-> FALSE]
NoRuns == [stage |-> "none", log |-> <<>>]
NoReplies == <<>>

Init ==
    /\ driver \in {"graph", "ui"}
    /\ pc = IF driver = "graph" THEN "main" ELSE "ui"
    /\ state = IF driver = "graph" THEN initial_state(<<>>) ELSE tech_pipeline_data
    /\ status = InitStatus
    /\ agent = NoAgent
    /\ raw_selected = None
    /\ calls = NoCalls
    /\ queue0 = <<>>
    /\ picked = {}
    /\ written = <<>>
    /\ last = "none"
    /\ restarts = 0
    /\ runs = NoRuns
    /\ faults = {}
    /\ replies = NoReplies
    /\ env = EmptyDict
    /\ key = ""

\* what get_medium_output can do, over the outcomes of the agent runs and
\* the replies of the extraction model
MediumOutputs ==
    {get_medium_output(attempts, extraction) :
        attempts \in AgentPatterns, extraction \in ExtractionReplies}

StrList(lines) == [i \in 1..Len(lines) |-> Str(lines[i])]

(* ------------------ script entry point and workflow -------------------- *)
\* __main__: fetch, exit on an empty result, else build the initial state
Main ==
    /\ driver = "graph" /\ pc = "main"
    /\ \E m \in MediumOutputs :
         /\ agent' = m.agent
         /\ runs' = [stage |-> "initial_ideas", log |-> m.agent.log]
         /\ faults' = IF m.raised \/ m.agent.raised
                      THEN faults \cup {"initial_ideas"} ELSE faults
         /\ calls' = Count("initial_ideas")
         /\ IF m.raised \/ m.agent.raised
            THEN pc' = "raised" /\ UNCHANGED <<state, last>>
            ELSE IF m.value = <<>>
            THEN pc' = "exit" /\ UNCHANGED <<state, last>>
            ELSE /\ pc' = "select_ideas"
                 /\ state' = initial_state(
                        StrList(Split(Strip(m.value, Whitespace), <<"\n">>)))
                 /\ last' = "initial_ideas"
    /\ UNCHANGED <<driver, replies, env, key, status, raw_selected, queue0,
                   picked, written, restarts>>

NodeSelectIdeas ==
    /\ driver = "graph" /\ pc = "select_ideas"
    /\ \E raw \in PipelineOutputs : \E r \in {select_ideas(state, raw)} :
         /\ raw_selected' = raw
         /\ faults' = IF r.raised THEN faults \cup {"select_ideas"} ELSE faults
         /\ calls' = Count("select_ideas")
         /\ IF r.raised
            THEN pc' = "raised" /\ UNCHANGED <<state, queue0, last>>
            ELSE /\ pc' = "pick_next"
                 /\ state' = r.state
                 /\ queue0' = r.state.selected_ideas
                 /\ last' = "select_ideas"
    /\ UNCHANGED <<driver, replies, env, key, runs, status, agent, picked,
                   written, restarts>>

NodePickNext ==
    /\ driver = "graph" /\ pc = "pick_next"
    /\ state' = pick_next_idea(state)
    /\ pc' = "research"
    /\ calls' = Count("pick_next")
    /\ picked' = IF state.selected_ideas # <<>>
                 THEN picked \cup {Head(state.selected_ideas)} ELSE picked
    /\ last' = "pick_next"
    /\ UNCHANGED <<driver, replies, env, key, runs, faults, status, agent,
                   raw_selected, queue0, written, restarts>>

NodeResearch ==
    /\ driver = "graph" /\ pc = "research"
    /\ \E research \in ResearchResults : state' = research_agent(state, research)
    /\ pc' = "write"
    /\ calls' = Count("research")
    /\ last' = "research"
    /\ UNCHANGED <<driver, replies, env, key, runs, faults, status, agent,
                   raw_selected, queue0, picked, written, restarts>>

NodeWrite ==
    /\ driver = "graph" /\ pc = "write"
    /\ \E blog \in BlogResults :
         /\ state' = blog_writer_agent(state, blog)
         /\ written' = Append(written, [idea |-> state.current_idea, blog |-> blog])
    /\ pc' = "draft"
    /\ calls' = Count("write")
    /\ last' = "write"
    /\ UNCHANGED <<driver, replies, env, key, runs, faults, status, agent,
                   raw_selected, queue0, picked, restarts>>

\* ghost_draft does not catch: a failing agent.run() propagates
NodeDraft ==
    /\ driver = "graph" /\ pc = "draft"
    /\ calls' = Count("draft")
    /\ \E ghost_draft_raises \in BOOLEAN :
         /\ runs' = [stage |-> "draft",
                      log |-> IF ghost_draft_raises THEN <<"fail">> ELSE <<"ok">>]
         /\ faults' = IF ghost_draft_raises THEN faults \cup {"draft"} ELSE faults
         /\ IF ghost_draft_raises
            THEN pc' = "raised" /\ UNCHANGED <<state, last>>
            ELSE /\ state' = ghost_drafter_agent(state)
                 /\ pc' = has_more_ideas(state')
                 /\ last' = "draft"
    /\ UNCHANGED <<driver, replies, env, key, status, agent, raw_selected,
                   queue0, picked, written, restarts>>

(* ------------------------------ dashboard ------------------------------ *)
next_action_no_refusal(status_map, data) ==
    IF status_map["initial_ideas"] = "pending" THEN "initial_ideas"
    ELSE IF status_map["initial_ideas"] = "done" /\ status_map["select_ideas"] = "pending"
    THEN "select_ideas"
    ELSE IF status_map["select_ideas"] = "done" /\ status_map["pick_next"] = "pending"
            /\ data.selected_ideas = <<>> /\ status_map["research"] = "pending"
    THEN "research"
    ELSE IF status_map["select_ideas"] = "done"
            /\ (status_map["pick_next"] = "pending"
                \/ (status_map["draft"] = "done" /\ data.selected_ideas # <<>>))
    THEN "pick_next"
    ELSE IF status_map["pick_next"] = "done" /\ status_map["research"] = "pending"
    THEN "research"
    ELSE IF status_map["research"] = "done" /\ status_map["write"] = "pending"
    THEN "write"
    ELSE IF status_map["write"] = "done" /\ status_map["draft"] = "pending"
    THEN "draft"
    ELSE IF status_map["draft"] = "done"
    THEN (IF data.selected_ideas # <<>> THEN "pick_next" ELSE "restart")
    ELSE "initial_ideas"

\* the action the main button is bound to in this render
next_action(status_map, data) ==
    IF status_map["initial_ideas"] = "pending" THEN "initial_ideas"
    ELSE IF status_map["initial_ideas"] = "done" /\ status_map["select_ideas"] = "pending"
    THEN "select_ideas"
    ELSE IF status_map["select_ideas"] = "done"
            /\ (status_map["pick_next"] = "pending"
                \/ (status_map["draft"] = "done" /\ data.selected_ideas # <<>>))
    THEN "pick_next"
    ELSE IF status_map["pick_next"] = "done" /\ status_map["research"] = "pending"
    THEN "research"
    ELSE IF status_map["research"] = "done" /\ status_map["write"] = "pending"
    THEN "write"
    ELSE IF status_map["write"] = "done" /\ status_map["draft"] = "pending"
    THEN "draft"
    ELSE IF status_map["draft"] = "done"
    THEN (IF data.selected_ideas # <<>> THEN "pick_next" ELSE "restart")
    ELSE "initial_ideas"

DraftCreated == Str(<<"Draft Created on Medium">>)

\* a click on the main button while it is bound to action a
Click(a) == driver = "ui" /\ next_action(status, state) = a

ClickRestartFetchOnly ==
    /\ Click("restart")
    /\ restarts < MaxRestarts
    /\ status' = [status EXCEPT !["initial_ideas"] = "pending"]
    /\ state' = [state EXCEPT !.ideas = <<>>]
    /\ restarts' = restarts + 1
    /\ calls' = NoCalls
    /\ queue0' = <<>>
    /\ written' = <<>>
    /\ last' = "restart"
    /\ UNCHANGED <<driver, replies, env, key, runs, faults, pc, agent,
                   raw_selected, picked>>

ClickRestart ==
    /\ Click("restart")
    /\ restarts < MaxRestarts
    /\ status' = [k \in DOMAIN status |-> "pending"]
    /\ state' = [state EXCEPT !.ideas = <<>>]
    /\ restarts' = restarts + 1
    /\ calls' = NoCalls
    /\ queue0' = <<>>
    /\ written' = <<>>
    /\ last' = "restart"
    /\ UNCHANGED <<driver, replies, env, key, runs, faults, pc, agent,
                   raw_selected, picked>>

ClickInitialIdeas ==
    /\ Click("initial_ideas")
    /\ calls["initial_ideas"] < MaxFetch
    /\ \E raw \in MediumOutputs :
         LET lines == SelectSeq(Split(raw.value, <<"\\", "n">>),
                                LAMBDA line : Strip(line, Whitespace) # <<>>)
         IN /\ agent' = raw.agent
            /\ runs' = [stage |-> "initial_ideas", log |-> raw.agent.log]
            /\ faults' = IF raw.raised \/ raw.agent.raised
                         THEN faults \cup {"initial_ideas"} ELSE faults
            /\ calls' = Count("initial_ideas")
            /\ IF raw.raised \/ raw.agent.raised
               THEN /\ status' = [status EXCEPT !["initial_ideas"] = "running"]
                    /\ UNCHANGED <<state, last>>
               ELSE /\ state' = [state EXCEPT !.ideas = StrList(lines)]
                    /\ status' = [status EXCEPT !["initial_ideas"] = "done"]
                    /\ last' = "initial_ideas"
    /\ UNCHANGED <<driver, replies, env, key, pc, raw_selected, queue0, picked,
                   written, restarts>>

ClickSelectIdeas ==
    /\ Click("select_ideas")
    /\ \E raw \in PipelineOutputs :
         \E res \in {select_ideas([ideas |-> state.ideas], raw)} :
            /\ raw_selected' = raw
            /\ faults' = IF res.raised THEN faults \cup {"select_ideas"} ELSE faults
            /\ calls' = Count("select_ideas")
            /\ IF res.raised
               THEN /\ status' = [status EXCEPT !["select_ideas"] = "running"]
                    /\ UNCHANGED <<state, queue0, last>>
               ELSE /\ state' = [state EXCEPT !.selected_ideas = res.state.selected_ideas]
                    /\ status' = [status EXCEPT !["select_ideas"] = "done"]
                    /\ queue0' = res.state.selected_ideas
                    /\ last' = "select_ideas"
    /\ UNCHANGED <<driver, replies, env, key, runs, pc, agent, picked, written,
                   restarts>>

\* on an empty queue the handler only shows a warning
ClickPickNext ==
    /\ Click("pick_next")
    /\ IF state.selected_ideas # <<>>
       THEN LET temp == [selected_ideas |-> state.selected_ideas, current_idea |-> None]
                res == pick_next_idea(temp)
            IN /\ state' = [state EXCEPT !.current_idea = res.current_idea,
                                         !.selected_ideas = res.selected_ideas,
                                         !.research_data = None,
                                         !.blog_post = None,
                                         !.draft_status = None]
               /\ status' = [status EXCEPT !["research"] = "pending",
                                           !["write"] = "pending",
                                           !["draft"] = "pending",
                                           !["pick_next"] = "done"]
               /\ calls' = Count("pick_next")
               /\ picked' = picked \cup {Head(state.selected_ideas)}
               /\ last' = "pick_next"
       ELSE last' = "warning" /\ UNCHANGED <<state, status, calls, picked>>
    /\ UNCHANGED <<driver, replies, env, key, runs, faults, pc, agent,
                   raw_selected, queue0, written, restarts>>

ClickResearch ==
    /\ Click("research")
    /\ \E research \in ResearchResults :
         LET temp == [current_idea |-> state.current_idea]
             res == research_agent(temp, research)
         IN state' = [state EXCEPT !.research_data = res.research_data]
    /\ status' = [status EXCEPT !["research"] = "done"]
    /\ calls' = Count("research")
    /\ last' = "research"
    /\ UNCHANGED <<driver, replies, env, key, runs, faults, pc, agent,
                   raw_selected, queue0, picked, written, restarts>>

ClickWrite ==
    /\ Click("write")
    /\ \E blog \in BlogResults :
         LET temp == [research_data |-> state.research_data]
             res == blog_writer_agent(temp, blog)
         IN /\ state' = [state EXCEPT !.blog_post = res.blog_post]
            /\ written' = Append(written, [idea |-> state.current_idea, blog |-> blog])
    /\ status' = [status EXCEPT !["write"] = "done"]
    /\ calls' = Count("write")
    /\ last' = "write"
    /\ UNCHANGED <<driver, replies, env, key, runs, faults, pc, agent,
                   raw_selected, queue0, picked, restarts>>

ClickDraft ==
    /\ Click("draft")
    /\ calls' = Count("draft")
    /\ \E ghost_draft_raises \in BOOLEAN :
         /\ runs' = [stage |-> "draft",
                      log |-> IF ghost_draft_raises THEN <<"fail">> ELSE <<"ok">>]
         /\ faults' = IF ghost_draft_raises THEN faults \cup {"draft"} ELSE faults
         /\ IF ghost_draft_raises
            THEN /\ status' = [status EXCEPT !["draft"] = "running"]
                 /\ UNCHANGED <<state, last>>
            ELSE LET temp == [blog_post |-> state.blog_post,
                              completed_blogs |-> state.completed_blogs,
                              current_idea |-> state.current_idea]
                     res == ghost_drafter_agent(temp)
                 IN /\ state' = [state EXCEPT !.completed_blogs = res.completed_blogs,
                                              !.draft_status = DraftCreated]
                    /\ status' = [status EXCEPT !["draft"] = "done"]
                    /\ last' = "draft"
    /\ UNCHANGED <<driver, replies, env, key, pc, agent, raw_selected, queue0,
                   picked, written, restarts>>

Next ==
    \/ Main
    \/ NodeSelectIdeas
    \/ NodePickNext
    \/ NodeResearch
    \/ NodeWrite
    \/ NodeDraft
    \/ ClickRestart
    \/ ClickInitialIdeas
    \/ ClickSelectIdeas
    \/ ClickPickNext
    \/ ClickResearch
    \/ ClickWrite
    \/ ClickDraft

Spec == Init /\ [][Next]_vars

(* ------------------ node functions called on their own ----------------- *)
Idea(c) == Str(<<c>>)

UnitStates ==
    {[ideas |-> <<>>, selected_ideas |-> q, current_idea |-> cur,
      research_data |-> None, blog_post |-> None, completed_blogs |-> done] :
        q \in SeqsUpTo({Idea("a"), Idea("c")}, MaxIdeas),
        cur \in {None, Idea("a")},
        done \in {EmptyDict, DictSet(EmptyDict, Idea("a"), [blog_post |-> Str(<<"P">>)])}}

UnitInit ==
    /\ driver = "unit"
    /\ pc = "unit"
    /\ state \in UnitStates
    /\ status = InitStatus
    /\ agent = NoAgent
    /\ raw_selected = None
    /\ calls = NoCalls
    /\ queue0 = state.selected_ideas
    /\ picked = {}
    /\ written = <<>>
    /\ last = "none"
    /\ restarts = 0
    /\ runs = NoRuns
    /\ faults = {}
    /\ replies = NoReplies
    /\ env = EmptyDict
    /\ key = ""

\* select_ideas(state) for each reply of content_selector
UnitSelectIdeas ==
    /\ driver = "unit" /\ pc = "unit"
    /\ calls = NoCalls
    /\ state.selected_ideas = <<>> /\ state.current_idea = None
    /\ \E raw \in SelectorOutputs : \E r \in {select_ideas(state, raw)} :
         /\ raw_selected' = raw
         /\ faults' = IF r.raised THEN faults \cup {"select_ideas"} ELSE faults
         /\ IF r.raised
            THEN pc' = "raised" /\ UNCHANGED <<state, queue0, last>>
            ELSE /\ pc' = "unit"
                 /\ state' = r.state
                 /\ queue0' = r.state.selected_ideas
                 /\ last' = "select_ideas"
    /\ calls' = Count("select_ideas")
    /\ UNCHANGED <<driver, replies, env, key, runs, status, agent, picked,
                   written, restarts>>

\* pick_next_idea(state), again and again
UnitPickNext ==
    /\ driver = "unit" /\ pc = "unit"
    /\ calls["select_ideas"] = 0
    /\ calls["pick_next"] < MaxCalls
    /\ state' = pick_next_idea(state)
    /\ calls' = Count("pick_next")
    /\ picked' = IF state.selected_ideas # <<>>
                 THEN picked \cup {Head(state.selected_ideas)} ELSE picked
    /\ last' = "pick_next"
    /\ UNCHANGED <<driver, replies, env, key, runs, faults, pc, status, agent,
                   raw_selected, queue0, written, restarts>>

UnitNext == UnitSelectIdeas \/ UnitPickNext

SpecUnit == UnitInit /\ [][UnitNext]_vars

(* --------------------------- standard pipeline ------------------------- *)
\* os.getenv(name, default) on the environment e
getenv(e, name, default) == IF name \in DOMAIN e THEN e[name] ELSE default

DEFAULT_KEY(e) == getenv(e, "GOOGLE_API_KEY", "")
KEY_FETCH(e) == getenv(e, "GOOGLE_API_KEY_FETCH", DEFAULT_KEY(e))
KEY_RESEARCH(e) == getenv(e, "GOOGLE_API_KEY_RESEARCH", DEFAULT_KEY(e))
KEY_WRITE(e) == getenv(e, "GOOGLE_API_KEY_WRITE", DEFAULT_KEY(e))
KEY_PUBLISH(e) == getenv(e, "GOOGLE_API_KEY_PUBLISH", KEY_WRITE(e))

get_api_key(e, type) ==
    IF type = "FETCH" THEN KEY_FETCH(e)
    ELSE IF type = "RESEARCH" THEN KEY_RESEARCH(e)
    ELSE IF type = "WRITE" THEN KEY_WRITE(e)
    ELSE IF type = "PUBLISH" THEN KEY_PUBLISH(e)
    ELSE DEFAULT_KEY(e)

FetchFailed == Str(<<"Failed to fetch news">>)
ResearchFailed == Str(<<"Research failed">>)
DraftCreatedStd == Str(<<"Draft Created on Medium (Check your browser)">>)
DraftFailed == Str(<<"Failed to draft on Medium">>)
Topic == Str(<<"Artificial Intelligence">>)

\* fetch_daily_news: the stripped non-blank lines of the reply, or one
\* placeholder headline when the call fails
fetch_daily_news(reply) ==
    IF reply.raised THEN <<FetchFailed>>
    ELSE LET lines == Split(reply.content, <<"\n">>)
             stripped == [i \in 1..Len(lines) |-> Strip(lines[i], Whitespace)]
         IN StrList(SelectSeq(stripped, LAMBDA h : h # <<>>))

research_topic(reply) ==
    IF reply.raised THEN ResearchFailed ELSE Str(reply.content)

\* write_blog_post does not catch: a failing llm.invoke propagates
write_blog_post(reply) == [raised |-> reply.raised, value |-> Str(reply.content)]

\* draft_to_medium: one agent.run(), its failure turned into a message
draft_to_medium(run) == IF run = "ok" THEN DraftCreatedStd ELSE DraftFailed

node_fetch_news(s, reply) == Merge(s, [headlines |-> fetch_daily_news(reply)])

node_research_into_blog_post(s, reply) ==
    Merge(s, [blog_post |-> research_topic(reply)])

node_research(s, reply) == Merge(s, [research_data |-> research_topic(reply)])

node_write(s, reply) ==
    LET post == write_blog_post(reply) IN
    [raised |-> post.raised,
     state |-> IF post.raised THEN s ELSE Merge(s, [blog_post |-> post.value])]

\* state["blog_post"].split raises on None, before the agent is built
node_publish(s, run) ==
    IF s.blog_post = None
    THEN [raised |-> TRUE, state |-> s]
    ELSE [raised |-> FALSE, state |-> Merge(s, [status |-> draft_to_medium(run)])]

StdSteps == {"fetch_news", "select_headline", "research", "write", "publish"}
StdNoCalls == [k \in StdSteps |-> 0]
StdInitStatus == [k \in StdSteps |-> "pending"]

\* __main__ of Blog_Pipeline
std_initial_state ==
    [topic_category |-> Topic, headlines |-> <<>>, selected_headline |-> None,
     research_data |-> None, blog_post |-> None, status |-> Str(<<"Starting">>)]

\* init_session_state
std_pipeline_data ==
    [topic_category |-> Topic, headlines |-> <<>>, selected_headline |-> None,
     research_data |-> Str(<<>>), blog_post |-> Str(<<>>),
     publish_status |-> Str(<<>>)]

\* replies of the headline model: a failure, no line, and MaxHeadlines lines
\* with padding and a blank line between them
RECURSIVE HeadlineText(_)
HeadlineText(n) ==
    IF n = 0 THEN <<>>
    ELSE IF n = 1 THEN <<" ", "a">>
    ELSE HeadlineText(n - 1) \o <<"\n", "\n", "c">>

FetchReplies == {Raises, Returns(<<>>), Returns(HeadlineText(MaxHeadlines))}
ResearchReplies == {Raises, Returns(<<"R">>)}
WriteReplies == {Raises, Returns(<<"#", "T", "\n", "B">>)}
PublishRuns == {"ok", "fail"}

\* one entry of the log of stage calls: the stage, what it was called on,
\* what its call returned, whether the external call succeeded or raised
Entry(stage, arg, value, ok, raised) ==
    [stage |-> stage, arg |-> arg, value |-> value, ok |-> ok, raised |-> raised]

StdInit ==
    /\ driver \in {"std_graph", "std_ui"}
    /\ pc = IF driver = "std_graph" THEN "fetch_news" ELSE "ui"
    /\ state = IF driver = "std_graph" THEN std_initial_state ELSE std_pipeline_data
    /\ status = StdInitStatus
    /\ agent = NoAgent
    /\ raw_selected = None
    /\ calls = StdNoCalls
    /\ queue0 = <<>>
    /\ picked = {}
    /\ written = <<>>
    /\ last = "none"
    /\ restarts = 0
    /\ runs = NoRuns
    /\ faults = {}
    /\ replies = <<>>
    /\ env = EmptyDict
    /\ key = ""

\* workflow: fetch_news -> research -> write -> publish -> END
StdNodeFetch ==
    /\ driver = "std_graph" /\ pc = "fetch_news"
    /\ \E reply \in FetchReplies :
         /\ state' = node_fetch_news(state, reply)
         /\ replies' = Append(replies, Entry("fetch_news", state.topic_category,
                                 ListV(fetch_daily_news(reply)), ~reply.raised, FALSE))
    /\ pc' = "research"
    /\ calls' = Count("fetch_news")
    /\ last' = "fetch_news"
    /\ UNCHANGED <<driver, status, agent, raw_selected, queue0, picked, written,
                   restarts, runs, faults, env, key>>

StdNodeResearch ==
    /\ driver = "std_graph" /\ pc = "research"
    /\ \E reply \in ResearchReplies :
         /\ state' = node_research(state, reply)
         /\ replies' = Append(replies, Entry("research", state.selected_headline,
                                 research_topic(reply), ~reply.raised, FALSE))
    /\ pc' = "write"
    /\ calls' = Count("research")
    /\ last' = "research"
    /\ UNCHANGED <<driver, status, agent, raw_selected, queue0, picked, written,
                   restarts, runs, faults, env, key>>

StdNodeWrite ==
    /\ driver = "std_graph" /\ pc = "write"
    /\ \E reply \in WriteReplies : \E res \in {node_write(state, reply)} :
         /\ state' = res.state
         /\ replies' = Append(replies, Entry("write", state.research_data,
                                 IF res.raised THEN None
                                 ELSE write_blog_post(reply).value,
                                 ~res.raised, res.raised))
         /\ pc' = IF res.raised THEN "raised" ELSE "publish"
         /\ faults' = IF res.raised THEN faults \cup {"write"} ELSE faults
         /\ last' = IF res.raised THEN last ELSE "write"
    /\ calls' = Count("write")
    /\ UNCHANGED <<driver, status, agent, raw_selected, queue0, picked, written,
                   restarts, runs, env, key>>

StdNodePublish ==
    /\ driver = "std_graph" /\ pc = "publish"
    /\ \E run \in PublishRuns : \E res \in {node_publish(state, run)} :
         /\ state' = res.state
         /\ replies' = Append(replies, Entry("publish", state.blog_post,
                                 IF res.raised THEN None ELSE draft_to_medium(run),
                                 ~res.raised /\ run = "ok", res.raised))
         /\ pc' = IF res.raised THEN "raised" ELSE "END"
         /\ faults' = IF res.raised THEN faults \cup {"publish"} ELSE faults
         /\ runs' = IF res.raised THEN runs
                    ELSE [stage |-> "publish", log |-> <<run>>]
         /\ last' = IF res.raised THEN last ELSE "publish"
    /\ calls' = Count("publish")
    /\ UNCHANGED <<driver, status, agent, raw_selected, queue0, picked, written,
                   restarts, env, key>>

\* render_standard_pipeline: the four stage buttons are always shown
StdClick == driver = "std_ui" /\ Len(replies) < MaxStdCalls

\* run_fetch, then the rerun: the radio shows the headlines with the first
\* one chosen and copies its value into selected_headline
StdClickFetch ==
    /\ StdClick
    /\ \E reply \in FetchReplies : \E news \in {fetch_daily_news(reply)} :
         /\ state' = [state EXCEPT !.headlines = news,
                                   !.selected_headline =
                                       IF news # <<>> THEN news[1] ELSE @]
         /\ replies' = Append(replies, Entry("fetch_news", state.topic_category,
                                 ListV(news), ~reply.raised, FALSE))
    /\ status' = [status EXCEPT !["fetch_news"] = "done"]
    /\ calls' = Count("fetch_news")
    /\ last' = "fetch_news"
    /\ UNCHANGED <<driver, pc, agent, raw_selected, queue0, picked, written,
                   restarts, runs, faults, env, key>>

\* the user picks another story in the radio
StdChooseHeadline ==
    /\ StdClick
    /\ \E i \in 1..Len(state.headlines) :
         /\ state.headlines[i] # state.selected_headline
         /\ state' = [state EXCEPT !.selected_headline = state.headlines[i]]
         /\ replies' = Append(replies, Entry("select_headline", ListV(state.headlines),
                                 state.headlines[i], TRUE, FALSE))
    /\ calls' = Count("select_headline")
    /\ last' = "select_headline"
    /\ UNCHANGED <<driver, pc, status, agent, raw_selected, queue0, picked,
                   written, restarts, runs, faults, env, key>>

\* the Select button, shown under the radio
StdClickSelect ==
    /\ driver = "std_ui"
    /\ state.headlines # <<>>
    /\ status' = [status EXCEPT !["select_headline"] = "done"]
    /\ UNCHANGED <<driver, pc, state, agent, raw_selected, calls, queue0, picked,
                   written, last, restarts, runs, faults, replies, env, key>>

StdClickResearch ==
    /\ StdClick
    /\ \E reply \in ResearchReplies :
         LET current_state ==
                 [selected_headline |-> state.selected_headline,
                  topic_category |-> state.topic_category, headlines |-> <<>>,
                  research_data |-> None, blog_post |-> None, status |-> None]
             res == node_research(current_state, reply)
         IN /\ state' = [state EXCEPT !.research_data = res.research_data]
            /\ replies' = Append(replies, Entry("research", state.selected_headline,
                                    research_topic(reply), ~reply.raised, FALSE))
    /\ status' = [status EXCEPT !["research"] = "done"]
    /\ calls' = Count("research")
    /\ last' = "research"
    /\ UNCHANGED <<driver, pc, agent, raw_selected, queue0, picked, written,
                   restarts, runs, faults, env, key>>

\* a raise in run_write leaves the session as it was
StdClickWrite ==
    /\ StdClick
    /\ \E reply \in WriteReplies :
         LET current_state ==
                 [selected_headline |-> state.selected_headline,
                  research_data |-> state.research_data,
                  topic_category |-> state.topic_category, headlines |-> <<>>,
                  blog_post |-> None, status |-> None]
             res == node_write(current_state, reply)
         IN IF res.raised
            THEN /\ replies' = Append(replies, Entry("write", state.research_data,
                                         None, FALSE, TRUE))
                 /\ faults' = faults \cup {"write"}
                 /\ UNCHANGED <<state, status, last>>
            ELSE /\ state' = [state EXCEPT !.blog_post = res.state.blog_post]
                 /\ replies' = Append(replies, Entry("write", state.research_data,
                                         write_blog_post(reply).value, TRUE, FALSE))
                 /\ status' = [status EXCEPT !["write"] = "done"]
                 /\ last' = "write"
                 /\ UNCHANGED faults
    /\ calls' = Count("write")
    /\ UNCHANGED <<driver, pc, agent, raw_selected, queue0, picked, written,
                   restarts, runs, env, key>>

StdClickPublish ==
    /\ StdClick
    /\ \E run \in PublishRuns :
         LET current_state ==
                 [blog_post |-> state.blog_post,
                  selected_headline |-> state.selected_headline,
                  topic_category |-> Str(<<>>), headlines |-> <<>>,
                  research_data |-> Str(<<>>), status |-> Str(<<>>)]
             res == node_publish(current_state, run)
         IN IF res.raised
            THEN /\ replies' = Append(replies, Entry("publish", state.blog_post,
                                         None, FALSE, TRUE))
                 /\ faults' = faults \cup {"publish"}
                 /\ UNCHANGED <<state, status, last, runs>>
            ELSE /\ state' = [state EXCEPT !.publish_status = res.state.status]
                 /\ replies' = Append(replies, Entry("publish", state.blog_post,
                                         draft_to_medium(run), run = "ok", FALSE))
                 /\ runs' = [stage |-> "publish", log |-> <<run>>]
                 /\ status' = [status EXCEPT !["publish"] = "done"]
                 /\ last' = "publish"
                 /\ UNCHANGED faults
    /\ calls' = Count("publish")
    /\ UNCHANGED <<driver, pc, agent, raw_selected, queue0, picked, written,
                   restarts, env, key>>

StdNext ==
    \/ StdNodeFetch
    \/ StdNodeResearch
    \/ StdNodeWrite
    \/ StdNodePublish
    \/ StdClickFetch
    \/ StdChooseHeadline
    \/ StdClickSelect
    \/ StdClickResearch
    \/ StdClickWrite
    \/ StdClickPublish

SpecStd == StdInit /\ [][StdNext]_vars

(* ---------------------------- credential lookup ------------------------ *)
EnvNames ==
    {"GOOGLE_API_KEY", "GOOGLE_API_KEY_FETCH", "GOOGLE_API_KEY_RESEARCH",
     "GOOGLE_API_KEY_WRITE", "GOOGLE_API_KEY_PUBLISH"}
\* values of a variable that is set: empty, or one of two keys
KeyValues == {"", "A", "B"}
\* every assignment of the environment keys: each one unset or set
Envs == UNION {[S -> KeyValues] : S \in SUBSET EnvNames}
\* the names get_api_key is called with, and one it does not know
KeyTypes == {"FETCH", "RESEARCH", "WRITE", "PUBLISH", "OTHER"}

KeysInit ==
    /\ driver = "keys"
    /\ pc = "keys"
    /\ state = EmptyDict
    /\ status = EmptyDict
    /\ agent = NoAgent
    /\ raw_selected = None
    /\ calls = EmptyDict
    /\ queue0 = <<>>
    /\ picked = {}
    /\ written = <<>>
    /\ last = "none"
    /\ restarts = 0
    /\ runs = NoRuns
    /\ faults = {}
    /\ replies = NoReplies
    /\ env \in Envs
    /\ key = ""

\* get_api_key(type); last holds the name it was called with
GetApiKey ==
    /\ driver = "keys"
    /\ \E type \in KeyTypes :
         /\ key' = get_api_key(env, type)
         /\ last' = type
    /\ UNCHANGED <<driver, pc, state, status, agent, raw_selected, calls, queue0,
                   picked, written, restarts, runs, faults, replies, env>>

KeysNext == GetApiKey

SpecKeys == KeysInit /\ [][KeysNext]_vars

(* ------------------------------ properties ----------------------------- *)
Range(q) == {q[i] : i \in 1..Len(q)}
Distinct(q) == \A i, j \in 1..Len(q) : i # j => q[i] # q[j]
LoopStages == {"pick_next", "research", "write", "draft"}

\* the sequencer has reached Done
Done ==
    \/ driver = "graph" /\ pc = "END"
    \/ driver = "ui" /\ next_action(status, state) = "restart"

\* C1: when the sequencer reaches Done, each of Pick Next, Research, Write
\* and Draft has run exactly N times, N the length of the queue left by
\* Select Ideas (N = 0 included)
C1_ExactIterationCount ==
    Done => \A k \in LoopStages : calls[k] = Len(queue0)

\* C2: pick_next_idea on a non-empty queue returns the state with
\* current_idea = the first idea, selected_ideas = the rest in order, and
\* every other field as it was
C2_PickNextFifo ==
    [][(calls'["pick_next"] = calls["pick_next"] + 1 /\ state.selected_ideas # <<>>)
         => /\ state'.current_idea = Head(state.selected_ideas)
            /\ state'.selected_ideas = Tail(state.selected_ideas)
            /\ DOMAIN state' = DOMAIN state
            /\ \A k \in DOMAIN state \ {"current_idea", "selected_ideas"} :
                   state'[k] = state[k]]_vars

\* a queue of two different ideas after one pick_next_idea call
C2_Witness ==
    /\ driver = "unit" /\ calls["pick_next"] = 1
    /\ Len(queue0) = 2 /\ queue0[1] # queue0[2]
    /\ state.current_idea = queue0[1]
    /\ state.selected_ideas = <<queue0[2]>>

\* C3: pick_next_idea on an empty queue returns the state unchanged, however
\* often it is invoked
C3_PickNextNoOpOnEmpty ==
    [][(calls'["pick_next"] = calls["pick_next"] + 1 /\ state.selected_ideas = <<>>)
         => state' = state]_vars

\* pick_next_idea invoked twice on an empty queue, current_idea kept
C3_Witness ==
    /\ driver = "unit" /\ calls["pick_next"] >= 2
    /\ queue0 = <<>> /\ state.selected_ideas = <<>>
    /\ state.current_idea = Idea("a")

\* C4: run_agent_with_retry stops at the first successful attempt and returns
\* its result; after max_retries failed attempts it returns None; it makes no
\* attempt beyond either and raises nothing
C4_RetryContract ==
    (calls["initial_ideas"] > 0 \/ agent # NoAgent) =>
        LET n == Len(agent.log) IN
        /\ n \in 1..max_retries
        /\ \A i \in 1..(n - 1) : agent.log[i] = "fail"
        /\ agent.log[n] = "ok" => agent.result = n
        /\ agent.log[n] = "fail" => (n = max_retries /\ agent.result = 0)
        /\ ~agent.raised

\* the agent failed twice and then succeeded
C4_Witness ==
    /\ calls["initial_ideas"] > 0
    /\ agent.log = <<"fail", "fail", "ok">>
    /\ agent.result = 3

\* C5: once a queue of pairwise distinct ideas is drained, completed_blogs
\* has one entry per idea of the queue and no other, each holding the blog
\* post written for that idea
C5_OneEntryPerIdea ==
    (Done /\ Distinct(queue0)) =>
        /\ DOMAIN state.completed_blogs = Range(queue0)
        /\ Cardinality(DOMAIN state.completed_blogs) = Len(queue0)
        /\ \A i \in 1..Len(written) :
              /\ written[i].idea \in DOMAIN state.completed_blogs
              /\ state.completed_blogs[written[i].idea].blog_post = written[i].blog

\* C6: the keys of completed_blogs are ideas Pick Next removed from the
\* queue; no step removes a key or changes the value of a key, and a Draft
\* step adds exactly the current idea as a new key
C6_AppendOnly ==
    [][/\ DOMAIN state'.completed_blogs \subseteq picked'
       /\ \A k \in DOMAIN state.completed_blogs :
             /\ k \in DOMAIN state'.completed_blogs
             /\ state'.completed_blogs[k] = state.completed_blogs[k]
       /\ (calls'["draft"] = calls["draft"] + 1 /\ last' = "draft") =>
             /\ state.current_idea \notin DOMAIN state.completed_blogs
             /\ DOMAIN state'.completed_blogs =
                    DOMAIN state.completed_blogs \cup {state.current_idea}]_vars

\* C7: current_idea is None before the first Pick Next and from the end of
\* a Draft step to the next Pick Next; research_data and blog_post are None
\* once Draft has completed
C7_ClearedAfterDraft ==
    (calls["pick_next"] = 0 \/ last = "draft") =>
        /\ state.current_idea = None
        /\ last = "draft" => (state.research_data = None /\ state.blog_post = None)

\* C8: while an idea is in progress the queue does not contain it
C8_QueueExcludesCurrent ==
    (last \in {"pick_next", "research", "write"} /\ state.current_idea # None) =>
        state.current_idea \notin Range(state.selected_ideas)

HasLeadingBullet(s) == s # <<>> /\ Head(s) \in {"-", "*"}

\* select_ideas returned, and the reply it parsed was not empty
SelectedFromNonEmpty ==
    /\ calls["select_ideas"] > 0 /\ last = "select_ideas"
    /\ raw_selected.v # <<>>

\* C9: for a non-empty reply, the ideas select_ideas stores are pairwise
\* distinct, non-empty and without a leading bullet marker
C9_DistinctCleanIdeas ==
    SelectedFromNonEmpty =>
        /\ Distinct(state.selected_ideas)
        /\ \A i \in 1..Len(state.selected_ideas) :
              /\ IsStr(state.selected_ideas[i])
              /\ state.selected_ideas[i].v # <<>>
              /\ ~HasLeadingBullet(state.selected_ideas[i].v)

\* the reply has no idea in it: nothing but blanks and fences, or no item
WhollyEmpty(raw) ==
    IF IsStr(raw) THEN Strip(RemoveFences(raw.v), Whitespace) = <<>> ELSE raw.v = <<>>

\* the reply is a literal, but not a list
NotAList(raw) ==
    /\ IsStr(raw)
    /\ LET r == literal_eval(Strip(RemoveFences(raw.v), Whitespace))
       IN r.ok /\ ~IsList(r.val)

\* C10: select_ideas raises for no reply, and leaves an empty queue when the
\* reply is wholly empty or is not a list
C10_SelectNeverRaises ==
    calls["select_ideas"] > 0 =>
        /\ pc # "raised"
        /\ (WhollyEmpty(raw_selected) \/ NotAList(raw_selected)) =>
              state.selected_ideas = <<>>

\* the stages of the calls made so far, in the order they were made
StageSeq == [i \in 1..Len(replies) |-> replies[i].stage]
AllOk == \A i \in 1..Len(replies) : replies[i].ok
PublishStatus ==
    IF driver = "std_graph" THEN state.status ELSE state.publish_status

\* a session of the standard dashboard that ran Fetch, the choice of a story
\* in the radio (the first one unless the user picked another), Research,
\* Write and Publish, once each and in that order, every call succeeding
EndToEndRun ==
    /\ driver = "std_ui"
    /\ StageSeq \in {<<"fetch_news", "research", "write", "publish">>,
                     <<"fetch_news", "select_headline", "research", "write",
                       "publish">>}
    /\ AllOk
    /\ replies[1].value.v # <<>>

Completed(stage) ==
    \E i \in 1..Len(replies) : replies[i].stage = stage /\ ~replies[i].raised
Invoked(stage) == calls'[stage] = calls[stage] + 1

\* C12: in the standard pipeline, run by the graph or by the dashboard
\* buttons, Research is never invoked while selected_headline is unset,
\* Write never before Research has completed, Publish never before Write
\* has completed
C12_StandardOrder ==
    [][/\ Invoked("research") => state.selected_headline # None
       /\ Invoked("write") => Completed("research")
       /\ Invoked("publish") => Completed("write")]_vars

\* C13: in the dashboard, the restart that ends a technical run returns the
\* pipeline state to the initial state: every field cleared, every step
\* status pending
C13_RestartResets ==
    (driver = "ui" /\ last = "restart") =>
        /\ status = InitStatus
        /\ state.ideas = <<>>
        /\ state.selected_ideas = <<>>
        /\ state.current_idea = None
        /\ state.research_data = None
        /\ state.blog_post = None
        /\ state.draft_status = None
        /\ DOMAIN state.completed_blogs = {}

\* C14: no stage of either pipeline propagates a fault when its external
\* call fails: every stage call returns, and the sequencer is never left in
\* a raised-fault state
C14_NoStageRaises ==
    /\ faults = {}
    /\ pc # "raised"
    /\ \A i \in 1..Len(replies) : ~replies[i].raised
    /\ \A k \in DOMAIN status : status[k] # "running"

\* C15: every browser-automation stage (fetch-ideas scrape, technical Draft,
\* standard Publish) runs its agent through the retry wrapper: after a
\* failed run the agent is run again until one attempt succeeds or
\* max_retries attempts have been made
C15_BrowserStagesRetry ==
    runs.log # <<>> =>
        \/ runs.log[Len(runs.log)] = "ok"
        \/ Len(runs.log) = max_retries

\* the fetch-ideas scrape of this run used up its retries
RetriesExhausted ==
    /\ calls["initial_ideas"] > 0
    /\ agent.result = 0
    /\ Len(agent.log) = max_retries

\* C16: once the fetch-ideas scrape has exhausted its retries the technical
\* run halts: no Select Ideas, Pick Next, Research, Write or Draft stage is
\* executed afterwards in that run, from the script or from the dashboard
C16_HaltOnExhaustedFetch ==
    [][RetriesExhausted =>
          \A k \in Steps \ {"initial_ideas"} : calls'[k] <= calls[k]]_vars

\* C17: in the dashboard, between two resets Fetch Ideas and Select Ideas
\* are each executed at most once, also from the states a raising stage
\* leaves behind; only Pick Next, Research, Write and Draft are re-entered,
\* and only through the loop edge after a Draft with a non-empty queue
C17_NoReentry ==
    [][driver = "ui" =>
          /\ calls'["initial_ideas"] <= 1
          /\ calls'["select_ideas"] <= 1
          /\ (Invoked("pick_next") /\ calls["pick_next"] > 0) =>
                 (last = "draft" /\ state.selected_ideas # <<>>)
          /\ \A k \in {"research", "write", "draft"} :
                 calls'[k] <= calls'["pick_next"]]_vars

\* C18: in the dashboard a Pick Next click on an empty queue changes
\* nothing, and Research, Write and Draft are invoked only after a Pick Next
\* that took an idea in the current iteration: each runs on the idea that
\* pick took from the queue, never on a null or stale current_idea
C18_PickGuardsDownstream ==
    [][driver = "ui" =>
          /\ (next_action(status, state) = "pick_next" /\ state.selected_ideas = <<>>) =>
                 (state' = state /\ status' = status /\ calls' = calls)
          /\ \A k \in {"research", "write", "draft"} :
                 Invoked(k) =>
                     /\ calls[k] + 1 = calls["pick_next"]
                     /\ calls["pick_next"] <= Len(queue0)
                     /\ state.current_idea = queue0[calls["pick_next"]]
                     /\ state.current_idea # None
          /\ Invoked("research") => last = "pick_next"
          /\ Invoked("write") => last = "research"
          /\ Invoked("draft") => last = "write"]_vars

\* a second run whose queue is empty: the click was refused while the idea
\* of the first run is still in current_idea
C18_Witness ==
    /\ driver = "ui"
    /\ last = "warning"
    /\ state.selected_ideas = <<>>
    /\ state.current_idea # None
    /\ calls["research"] = 0
    /\ picked # {}

\* the fallback order of the configuration: the key of the stage when it
\* is set, else the shared default key, read from the environment itself
StageVar(type) ==
    IF type = "FETCH" THEN "GOOGLE_API_KEY_FETCH"
    ELSE IF type = "RESEARCH" THEN "GOOGLE_API_KEY_RESEARCH"
    ELSE IF type = "WRITE" THEN "GOOGLE_API_KEY_WRITE"
    ELSE "GOOGLE_API_KEY_PUBLISH"
SharedDefault ==
    IF "GOOGLE_API_KEY" \in DOMAIN env THEN env["GOOGLE_API_KEY"] ELSE ""
ExpectedKey(type) ==
    IF type \in {"FETCH", "RESEARCH", "WRITE", "PUBLISH"}
          /\ StageVar(type) \in DOMAIN env
    THEN env[StageVar(type)]
    ELSE SharedDefault

\* C19: for every stage in FETCH, RESEARCH, WRITE, PUBLISH and every
\* assignment of the environment keys, get_api_key(stage) returns the
\* stage-specific key when it is set and the shared default key otherwise;
\* for any other name it returns the shared default key
C19_KeyFallback ==
    (driver = "keys" /\ last \in KeyTypes) => key = ExpectedKey(last)

StageOrder ==
    <<"initial_ideas", "select_ideas", "pick_next", "research", "write", "draft">>

\* C20: in every state of the dashboard's technical pipeline in which no
\* stage call has raised, a step is done only if every earlier step is
\* done, and no step is left running between clicks
C20_StatusOrder ==
    (driver = "ui" /\ faults = {}) =>
        /\ \A k \in DOMAIN status : status[k] \in {"pending", "done"}
        /\ \A i, j \in 1..Len(StageOrder) :
               (i < j /\ status[StageOrder[j]] = "done") =>
                   status[StageOrder[i]] = "done"

\* the second iteration of a run: picked again, downstream steps reset
C20_Witness ==
    /\ driver = "ui" /\ faults = {}
    /\ calls["pick_next"] = 2
    /\ status["pick_next"] = "done"
    /\ status["research"] = "pending"
    /\ calls["draft"] = 1

====
